---- MODULE Spec2Model ----
(***************************************************************************)
(* A model of the PR dashboard (src/app.py): the CSV load at import time,  *)
(* the weight function, the tolerant decoding of the requested_reviewers   *)
(* column, the three cumulative series builders and their animation        *)
(* frames.                                                                 *)
(*                                                                         *)
(* A data frame is a sequence of rows (records).  A cell that pandas reads *)
(* as NaN is the empty tuple; a numeric cell holding x is <<x>>; a         *)
(* merged_at cell is the tuple of the fields of its text (<<y, m, d>> for  *)
(* an ISO timestamp, any other tuple for text that is no timestamp); a     *)
(* requested_reviewers cell is the sequence of the lexical tokens of its   *)
(* text.  The columns user.login and base.repo.name are the fields         *)
(* user_login and base_repo_name.                                          *)
(***************************************************************************)
EXTENDS Integers, Sequences, FiniteSets, TLC

VARIABLES
    csv,              \* the rows of data/all_prs_detailed_qgis.csv
    df_all_prs,       \* the module-level frame after the load-time filters
    user_aliases,     \* the module-level table from logins to display names
    dataset_mapper,   \* the value of the checklist 'dataset-mapper'
    dataset_space,    \* the value of the checklist 'dataset-space'
    dataset_qgis,     \* the value of the checklist 'dataset-qgis'
    weight_dropdown,  \* the value of the dropdown 'weight-dropdown'
    req,              \* the last call of a plot function: its name and arguments
    fig,              \* what that call returned (or the exception it raised)
    loc,              \* the call's local frames when it returned
    cw_row,           \* calculate_weight alone: the row it is given
    cw_weight_by,     \* calculate_weight alone: the metric name it is given
    cw_result,        \* calculate_weight alone: <<what it returned>>, <<>> before
    activate_script,  \* setup_project: the content of activate.d/env_var.sh
    deactivate_script,\* setup_project: the content of deactivate.d/env_var.sh
    environ,          \* setup_project: os.environ["SI_ROOT_DIR"], "" when unset
    file_data,        \* set_root_dir_env_var: the list of lines it works on
    lineno,           \* set_root_dir_env_var: the position of its first loop
    overwrite,        \* set_root_dir_env_var: its flag
    pc,               \* set_root_dir_env_var: where the call is
    runs,             \* the number of calls of set_root_dir_env_var that returned
    prior             \* the content of the activate script when the call began

controls == <<dataset_mapper, dataset_space, dataset_qgis, weight_dropdown>>

app_vars == <<csv, df_all_prs, user_aliases, controls, req, fig, loc>>

weight_vars == <<cw_row, cw_weight_by, cw_result>>

setup_vars ==
    <<activate_script, deactivate_script, environ, file_data, lineno,
      overwrite, pc, runs, prior>>

vars == <<app_vars, weight_vars, setup_vars>>

----------------------------------------------------------------------------
(* Cells, sequences *)

NaN == <<>>

Num(x) == <<x>>

isna(c) == c = NaN

notna(c) == c # NaN

fillna(c, v) == IF isna(c) THEN v ELSE c[1]

Range(s) == {s[i] : i \in DOMAIN s}

MaxOf(S) == CHOOSE x \in S : \A y \in S : y <= x

RECURSIVE SumSeq(_)
SumSeq(s) == IF s = <<>> THEN 0 ELSE Head(s) + SumSeq(Tail(s))

RECURSIVE Concat(_)
Concat(ss) == IF ss = <<>> THEN <<>> ELSE Head(ss) \o Concat(Tail(ss))

Column(df, col) == [i \in DOMAIN df |-> df[i][col]]

\* range(start, stop, step) for step > 0
range(start, stop, step) ==
    LET len == IF stop > start THEN (stop - start + step - 1) \div step ELSE 0
    IN  [i \in 1..len |-> start + (i - 1) * step]

\* The order of str under <, as sorted() uses it (code point order), for
\* the strings that can be a group key.
KeyOrder == <<
   "2023", "2024", "2025", "2026",
   "Adam", "Alex", "Alex-Mackie", "Aneesh",
   "Anna", "Ben", "David", "DavidMc123",
   "Euan", "Harry", "Henry", "James",
   "KBodolai", "Kristian", "Magda", "Nathan",
   "Nestor", "Oliver", "Rob", "Selena",
   "SelenaGeo", "Steph", "Stig", "Stuart",
   "Wietze", "Will", "WillBriggs-SI", "adamnoach",
   "aneeshnaik", "anna-fumagalli", "benritchie", "copilot",
   "dp-actions[bot]", "euan-si", "ghost-user", "harryC-space-intelligence",
   "henryspeir", "jam3s-in-space", "magdalena90", "natborn2",
   "nestorSag", "oliver-mcf", "rob-webster-space-intelligence", "stearp",
   "stuartbrown4", "stviaene-si", "wietzesuijker" >>

\* sorted(S) for a set of strings
sorted(S) == SelectSeq(KeyOrder, LAMBDA k : k \in S)

\* sorted(S) for a set of integers
RECURSIVE sorted_int(_)
sorted_int(S) ==
    IF S = {} THEN <<>>
    ELSE LET m == CHOOSE x \in S : \A y \in S : x <= y
         IN  <<m>> \o sorted_int(S \ {m})

\* Series.unique(): the values in order of first appearance
RECURSIVE unique(_)
unique(s) ==
    IF s = <<>> THEN <<>>
    ELSE LET init == unique(SubSeq(s, 1, Len(s) - 1))
             last == s[Len(s)]
         IN  IF last \in Range(init) THEN init ELSE Append(init, last)

----------------------------------------------------------------------------
(* Module level: the alias table and the load *)

\* The table as the module writes it, lines 10-34
user_aliases_literal ==
   "Alex-Mackie" :> "Alex" @@
   "DavidMc123" :> "David" @@
   "KBodolai" :> "Kristian" @@
   "SelenaGeo" :> "Selena" @@
   "WillBriggs-SI" :> "Will" @@
   "adamnoach" :> "Adam" @@
   "aneeshnaik" :> "Aneesh" @@
   "anna-fumagalli" :> "Anna" @@
   "euan-si" :> "Euan" @@
   "magdalena90" :> "Magda" @@
   "natborn2" :> "Nathan" @@
   "nestorSag" :> "Nestor" @@
   "oliver-mcf" :> "Oliver" @@
   "rob-webster-space-intelligence" :> "Rob" @@
   "stearp" :> "Steph" @@
   "stuartbrown4" :> "Stuart" @@
   "wietzesuijker" :> "Wietze" @@
   "benritchie" :> "Ben" @@
   "stviaene-si" :> "Stig" @@
   "jam3s-in-space" :> "James" @@
   "harryC-space-intelligence" :> "Harry" @@
   "dp-actions[bot]" :> "copilot" @@
   "henryspeir" :> "Henry"

\* A faulty variant: the login is kept whatever the table says
user_display_unmapped(login) == login

\* s.map(user_aliases).fillna(s), for one value
user_display_of(login) ==
    IF login \in DOMAIN user_aliases THEN user_aliases[login] ELSE login

BotLogin == "dp-actions[bot]"

MaxAdditions == 30000

assign_source(repo_name) ==
    IF repo_name = "mapper-project-template" THEN "mapper_template"
    ELSE IF repo_name = "space-intelligence" THEN "space_intelligence"
    ELSE "qgis_plugins"

\* A faulty variant: the bot's rows are kept
LoadData_with_bot(rows) ==
    LET small == SelectSeq(rows, LAMBDA r :
                     notna(r.additions) /\ r.additions[1] <= MaxAdditions)
    IN  [i \in DOMAIN small |->
            small[i] @@ ("source" :> assign_source(small[i].base_repo_name))]

\* df_all_prs after lines 38-55: the bot's rows removed, then the rows kept
\* whose additions <= 30000 (a comparison that is False for NaN), then the
\* source column added.
LoadData(rows) ==
    LET no_bot == SelectSeq(rows, LAMBDA r : r.user_login # BotLogin)
        small  == SelectSeq(no_bot, LAMBDA r :
                      notna(r.additions) /\ r.additions[1] <= MaxAdditions)
    IN  [i \in DOMAIN small |->
            small[i] @@ ("source" :> assign_source(small[i].base_repo_name))]

----------------------------------------------------------------------------
(* Timestamps: pd.to_datetime, .dt.year, .dt.dayofyear *)

IsLeap(y) == (y % 4 = 0 /\ y % 100 # 0) \/ y % 400 = 0

DaysInMonth(y, m) ==
    IF m = 2 /\ IsLeap(y) THEN 29
    ELSE <<31, 28, 31, 30, 31, 30, 31, 31, 30, 31, 30, 31>>[m]

\* Whether the text of a merged_at cell is a timestamp
parseable(c) ==
    /\ Len(c) = 3
    /\ c[2] \in 1..12
    /\ c[3] \in 1..DaysInMonth(c[1], c[2])

\* pd.to_datetime(df['merged_at']) raises on the first text it cannot parse
to_datetime_raises(df) ==
    \E i \in DOMAIN df : notna(df[i].merged_at) /\ ~parseable(df[i].merged_at)

dt_year(ts) == ts[1]

RECURSIVE DaysBefore(_, _)
DaysBefore(y, m) == IF m = 1 THEN 0 ELSE DaysBefore(y, m - 1) + DaysInMonth(y, m - 1)

dt_dayofyear(ts) == DaysBefore(ts[1], ts[2]) + ts[3]

\* Lines 116-120 (and 304-308, 516-520) once to_datetime has not raised:
\* the rows with a merge time, with their year, day_of_year and date.
preprocess(df) ==
    LET merged == SelectSeq(df, LAMBDA r : notna(r.merged_at))
    IN  [i \in DOMAIN merged |->
            merged[i] @@ ( "year" :> dt_year(merged[i].merged_at)
                        @@ "day_of_year" :> dt_dayofyear(merged[i].merged_at)
                        @@ "date" :> merged[i].merged_at )]

isin(df, dataset_selection) ==
    SelectSeq(df, LAMBDA r : r.source \in Range(dataset_selection))

----------------------------------------------------------------------------
(* The weight of a row *)

\* A faulty variant: an unknown metric name weighs nothing
calculate_weight_unknown_zero(row, weight_by) ==
    IF weight_by = "pr_count" THEN 1
    ELSE IF weight_by = "lines_added" THEN fillna(row.additions, 0)
    ELSE IF weight_by = "net_lines"
         THEN fillna(row.additions, 0) - fillna(row.deletions, 0)
    ELSE IF weight_by = "comments" THEN fillna(row.review_comment_count, 0) + 1
    ELSE 0

\* A faulty variant: lines_added and net_lines exchanged
calculate_weight_swapped(row, weight_by) ==
    IF weight_by = "pr_count" THEN 1
    ELSE IF weight_by = "net_lines" THEN fillna(row.additions, 0)
    ELSE IF weight_by = "lines_added"
         THEN fillna(row.additions, 0) - fillna(row.deletions, 0)
    ELSE IF weight_by = "comments" THEN fillna(row.review_comment_count, 0) + 1
    ELSE 1

calculate_weight(row, weight_by) ==
    IF weight_by = "pr_count" THEN 1
    ELSE IF weight_by = "lines_added" THEN fillna(row.additions, 0)
    ELSE IF weight_by = "net_lines"
         THEN fillna(row.additions, 0) - fillna(row.deletions, 0)
    ELSE IF weight_by = "comments" THEN fillna(row.review_comment_count, 0) + 1
    ELSE 1

with_weight(df, weight_by) ==
    [i \in DOMAIN df |-> df[i] @@ ("weight" :> calculate_weight(df[i], weight_by))]

----------------------------------------------------------------------------
(* ast.literal_eval on the text of a requested_reviewers cell.              *)
(* A token is [k, v]: k is "p" (punctuation), "s" (a string literal, v its  *)
(* value), "n" (a number) or "id" (a name).                                 *)

P(c) == [k |-> "p", v |-> c]

S(x) == [k |-> "s", v |-> x]

N(x) == [k |-> "n", v |-> x]

Id(x) == [k |-> "id", v |-> x]

EOF == [k |-> "eof", v |-> ""]

tok(toks, i) == IF i \in DOMAIN toks THEN toks[i] ELSE EOF

IsP(t, c) == t.k = "p" /\ t.v = c

Fail == [ok |-> FALSE]

\* ast.parse(text, mode='eval'), by recursive descent over the displays and
\* atoms of the grammar: a node and the position after it, or no parse.
RECURSIVE parse_expr(_, _)
RECURSIVE parse_elts(_, _, _)
RECURSIVE parse_pairs(_, _)

\* The List or Set node of the elements r
display_node(t, r) ==
    IF r.ok THEN [ok |-> TRUE, node |-> [t |-> t, elts |-> r.elts], pos |-> r.pos]
    ELSE Fail

\* The Dict node of the pairs r
dict_node(r) ==
    IF r.ok
      THEN [ok |-> TRUE, node |-> [t |-> "Dict", keys |-> r.keys, values |-> r.values],
            pos |-> r.pos]
      ELSE Fail

\* After '{' and a first expression: a ':' makes the display a dict
brace_display(toks, i, first) ==
    IF ~first.ok THEN Fail
    ELSE IF IsP(tok(toks, first.pos), ":") THEN dict_node(parse_pairs(toks, i + 1))
    ELSE display_node("Set", parse_elts(toks, i + 1, "}"))

parse_expr(toks, i) ==
    LET t == tok(toks, i) IN
    IF t.k \in {"s", "n"}
      THEN [ok |-> TRUE, node |-> [t |-> "Constant", kind |-> t.k, v |-> t.v], pos |-> i + 1]
    ELSE IF t.k = "id" /\ t.v \in {"True", "False", "None"}
      THEN [ok |-> TRUE, node |-> [t |-> "Constant", kind |-> "kw", v |-> t.v], pos |-> i + 1]
    ELSE IF t.k = "id"
      THEN [ok |-> TRUE, node |-> [t |-> "Name", id |-> t.v], pos |-> i + 1]
    ELSE IF IsP(t, "[") THEN display_node("List", parse_elts(toks, i + 1, "]"))
    ELSE IF IsP(t, "{")
      THEN IF IsP(tok(toks, i + 1), "}")
             THEN [ok |-> TRUE, node |-> [t |-> "Dict", keys |-> <<>>, values |-> <<>>],
                   pos |-> i + 2]
             ELSE brace_display(toks, i, parse_expr(toks, i + 1))
    ELSE Fail

\* The elements e, then those of r
elts_cons(e, r) ==
    IF r.ok THEN [ok |-> TRUE, elts |-> <<e.node>> \o r.elts, pos |-> r.pos] ELSE Fail

\* After an element e: ',' and the rest, or the closing bracket
elts_after(toks, closer, e) ==
    IF ~e.ok THEN Fail
    ELSE IF IsP(tok(toks, e.pos), ",")
      THEN elts_cons(e, parse_elts(toks, e.pos + 1, closer))
    ELSE IF IsP(tok(toks, e.pos), closer)
      THEN [ok |-> TRUE, elts |-> <<e.node>>, pos |-> e.pos + 1]
    ELSE Fail

\* expr (',' expr)* [','] up to the closing bracket; possibly none
parse_elts(toks, i, closer) ==
    IF IsP(tok(toks, i), closer) THEN [ok |-> TRUE, elts |-> <<>>, pos |-> i + 1]
    ELSE elts_after(toks, closer, parse_expr(toks, i))

\* The pair key: val, then those of r
pairs_cons(key, val, r) ==
    IF r.ok
      THEN [ok |-> TRUE, keys |-> <<key.node>> \o r.keys,
            values |-> <<val.node>> \o r.values, pos |-> r.pos]
      ELSE Fail

\* After a pair key: val: ',' and the rest, or the closing brace
pairs_after_value(toks, key, val) ==
    IF ~val.ok THEN Fail
    ELSE IF IsP(tok(toks, val.pos), ",")
      THEN pairs_cons(key, val, parse_pairs(toks, val.pos + 1))
    ELSE IF IsP(tok(toks, val.pos), "}")
      THEN [ok |-> TRUE, keys |-> <<key.node>>, values |-> <<val.node>>,
            pos |-> val.pos + 1]
    ELSE Fail

\* After a key: ':' and the value
pairs_after_key(toks, key) ==
    IF ~key.ok \/ ~IsP(tok(toks, key.pos), ":") THEN Fail
    ELSE pairs_after_value(toks, key, parse_expr(toks, key.pos + 1))

\* expr ':' expr (',' expr ':' expr)* [','] up to the closing brace
parse_pairs(toks, i) ==
    IF IsP(tok(toks, i), "}")
      THEN [ok |-> TRUE, keys |-> <<>>, values |-> <<>>, pos |-> i + 1]
    ELSE pairs_after_key(toks, parse_expr(toks, i))

\* The whole text is one expression
whole_text(toks, r) == IF r.ok /\ r.pos = Len(toks) + 1 THEN r ELSE Fail

ast_parse(toks) == whole_text(toks, parse_expr(toks, 1))

\* A converted value: [exc |-> "", val |-> v], or the exception raised.
Raise(e) == [exc |-> e]

Value(v) == [exc |-> "", val |-> v]

hashable(v) == v.t \notin {"list", "dict", "set"}

\* ast.literal_eval's _convert: left to right, the first exception wins.  A
\* dict is dict(zip(map(_convert, keys), map(_convert, values))): each key
\* is hashed once its value is converted; a set hashes each element as it
\* is converted.
RECURSIVE convert(_)
RECURSIVE convert_list(_)
RECURSIVE convert_set(_)
RECURSIVE convert_dict(_, _)

\* The list, set or dict of the converted items r
container(t, r) ==
    IF r.exc # "" THEN r
    ELSE IF t = "dict" THEN Value([t |-> t, pairs |-> r.val])
    ELSE Value([t |-> t, items |-> r.val])

convert(node) ==
    IF node.t = "Constant" THEN Value([t |-> node.kind, v |-> node.v])
    ELSE IF node.t = "List" THEN container("list", convert_list(node.elts))
    ELSE IF node.t = "Set" THEN container("set", convert_set(node.elts))
    ELSE IF node.t = "Dict" THEN container("dict", convert_dict(node.keys, node.values))
    ELSE Raise("ValueError")

\* The converted item, then the converted rest
items_cons(item, r) == IF r.exc # "" THEN r ELSE Value(<<item>> \o r.val)

list_after(elts, h) ==
    IF h.exc # "" THEN h ELSE items_cons(h.val, convert_list(Tail(elts)))

convert_list(elts) ==
    IF elts = <<>> THEN Value(<<>>) ELSE list_after(elts, convert(Head(elts)))

set_after(elts, h) ==
    IF h.exc # "" THEN h
    ELSE IF ~hashable(h.val) THEN Raise("TypeError")
    ELSE items_cons(h.val, convert_set(Tail(elts)))

convert_set(elts) ==
    IF elts = <<>> THEN Value(<<>>) ELSE set_after(elts, convert(Head(elts)))

dict_after_value(keys, values, key, val) ==
    IF val.exc # "" THEN val
    ELSE IF ~hashable(key.val) THEN Raise("TypeError")
    ELSE items_cons([key |-> key.val, value |-> val.val],
                    convert_dict(Tail(keys), Tail(values)))

dict_after_key(keys, values, key) ==
    IF key.exc # "" THEN key
    ELSE dict_after_value(keys, values, key, convert(Head(values)))

convert_dict(keys, values) ==
    IF keys = <<>> THEN Value(<<>>)
    ELSE dict_after_key(keys, values, convert(Head(keys)))

\* The value of the parse r
converted(r) == IF ~r.ok THEN Raise("SyntaxError") ELSE convert(r.node)

literal_eval(toks) == converted(ast_parse(toks))

\* key in d, d[key] for a str key: the last pair with that key is the one
\* the dict holds
IsStrKey(p, key) == p.key.t = "s" /\ p.key.v = key

dict_contains(d, key) == \E i \in DOMAIN d.pairs : IsStrKey(d.pairs[i], key)

dict_get(d, key) ==
    LET i == MaxOf({j \in DOMAIN d.pairs : IsStrKey(d.pairs[j], key)})
    IN  d.pairs[i].value

----------------------------------------------------------------------------
(* Figures *)

\* go.Scatter(x=, y=, mode=, name=, text=)
Scatter(mode, name, x, y, text) ==
    [mode |-> mode, name |-> name, x |-> x, y |-> y, text |-> text]

\* go.Figure(): no trace, no frame
EmptyFigure == [raised |-> "", data |-> <<>>, frames |-> <<>>]

Raised(e) == [raised |-> e, data |-> <<>>, frames |-> <<>>]

NoLocals == [df_cumulative |-> <<>>, top_n_users |-> {}, review_records |-> <<>>]

Outcome(f, l) == [fig |-> f, loc |-> l]

days_of(df) == Range(Column(df, "day_of_year"))

\* A faulty variant: the rows strictly before the day
rows_before(df, day) == SelectSeq(df, LAMBDA r : r.day_of_year < day)

\* df[df['day_of_year'] <= day] (lines 138, 335, 570)
rows_up_to(df, day) == SelectSeq(df, LAMBDA r : r.day_of_year <= day)

\* A faulty variant: the last day left out
series_days_short(max_day) == range(1, max_day, 1)

\* range(1, max_day + 1): the days of one group's series (lines 137, 334, 569)
series_days(max_day) == range(1, max_day + 1, 1)

\* A faulty variant: a frame for every day
frame_days_all(max_day) == range(1, max_day + 1, 1)

\* range(1, max_day + 1, 2): the days that get a frame (lines 185, 393, 628)
frame_days(max_day) == range(1, max_day + 1, 2)

\* A faulty variant: the marker always at the row of the group's last day
current_point_at_last(data, data_up_to_day, day, max_day_for) ==
    SelectSeq(data, LAMBDA r : r.day_of_year = max_day_for)

\* A faulty variant: past the group's last day the marker is not kept
current_point_no_freeze(data, data_up_to_day, day, max_day_for) ==
    SelectSeq(data_up_to_day, LAMBDA r : r.day_of_year = day)

\* The marker's row(s) of one group in the frame of one day (lines 202-207,
\* 411-416, 646-651): the row of that day; failing that the last row up to
\* that day; past the group's last day, the row of its last day.
current_point(data, data_up_to_day, day, max_day_for) ==
    IF day <= max_day_for
      THEN LET exact == SelectSeq(data_up_to_day, LAMBDA r : r.day_of_year = day)
           IN  IF Len(exact) = 0
                 THEN IF Len(data_up_to_day) > 0
                        THEN <<data_up_to_day[Len(data_up_to_day)]>>
                        ELSE data_up_to_day
                 ELSE exact
      ELSE SelectSeq(data, LAMBDA r : r.day_of_year = max_day_for)

----------------------------------------------------------------------------
(* plot_cumulative_prs: one series per year *)

\* Lines 126-145.  (year_df is sorted by merged_at first; the sum over the
\* rows up to a day does not depend on their order.)
cumulative_data_by_year(df_merged) ==
    LET available_years == sorted_int(Range(Column(df_merged, "year")))
        of_year(year) ==
            LET year_df == SelectSeq(df_merged, LAMBDA r : r.year = year)
                max_day == MaxOf(days_of(year_df))
            IN  IF Len(year_df) = 0 THEN <<>>
                ELSE LET days == series_days(max_day)
                     IN  [i \in DOMAIN days |->
                            [day_of_year |-> days[i],
                             cumulative_prs |->
                                 SumSeq(Column(rows_up_to(year_df, days[i]), "weight")),
                             year |-> ToString(year)]]
    IN  Concat([i \in DOMAIN available_years |-> of_year(available_years[i])])

\* Lines 158-179
initial_traces_by_year(df_cumulative) ==
    LET years == unique(Column(df_cumulative, "year"))
    IN  Concat([i \in DOMAIN years |->
            << Scatter("lines", years[i], <<>>, <<>>, <<>>),
               Scatter("markers+text", years[i], <<>>, <<>>, <<>>) >>])

\* Lines 181-223
frames_by_year(df_cumulative) ==
    LET years == unique(Column(df_cumulative, "year"))
        max_day == MaxOf(days_of(df_cumulative))
        days == frame_days(max_day)
        traces(day, year) ==
            LET year_data == SelectSeq(df_cumulative, LAMBDA r : r.year = year)
                max_day_for_year == MaxOf(days_of(year_data))
                year_data_up_to_day ==
                    SelectSeq(year_data, LAMBDA r : r.day_of_year <= day)
                point == current_point(year_data, year_data_up_to_day, day,
                                       max_day_for_year)
            IN  << Scatter("lines", year,
                           Column(year_data_up_to_day, "day_of_year"),
                           Column(year_data_up_to_day, "cumulative_prs"), <<>>),
                   IF Len(point) > 0
                     THEN Scatter("markers+text", year,
                                  Column(point, "day_of_year"),
                                  Column(point, "cumulative_prs"), <<year>>)
                     ELSE Scatter("markers+text", "", <<>>, <<>>, <<>>) >>
    IN  [i \in DOMAIN days |->
            [name |-> ToString(days[i]),
             data |-> Concat([j \in DOMAIN years |-> traces(days[i], years[j])])]]

\* The possible returns of plot_cumulative_prs(dataset_selection, weight_by)
plot_cumulative_prs(dataset_selection, weight_by) ==
    IF Len(dataset_selection) = 0 THEN {Outcome(EmptyFigure, NoLocals)}
    ELSE LET df == isin(df_all_prs, dataset_selection) IN
    IF to_datetime_raises(df) THEN {Outcome(Raised("ValueError"), NoLocals)}
    ELSE LET df_merged == with_weight(preprocess(df), weight_by)
             df_cumulative == cumulative_data_by_year(df_merged)
             locals == [NoLocals EXCEPT !.df_cumulative = df_cumulative]
         IN  IF Len(df_cumulative) = 0 THEN {Outcome(EmptyFigure, locals)}
             ELSE {Outcome([raised |-> "",
                            data |-> initial_traces_by_year(df_cumulative),
                            frames |-> frames_by_year(df_cumulative)], locals)}

----------------------------------------------------------------------------
(* The labelled users *)

n == 7

\* df_cumulative.groupby('user')[col].max(): for each user, the largest
\* value of its rows
groupby_max(df_cumulative, col) ==
    [u \in Range(Column(df_cumulative, "user")) |->
        MaxOf({r[col] : r \in {x \in Range(df_cumulative) : x.user = u}})]

\* A faulty variant: head(k) left out, every user is kept
head_index_sets_all(final_values, k) == {DOMAIN final_values}

\* set(final_values.sort_values(ascending=False).head(k).index): the sort is
\* pandas' default quicksort, which is not stable, so equal values come in
\* an order the build decides; every set the first k of a descending order
\* can be is a possible result.
head_index_sets(final_values, k) ==
    LET users == DOMAIN final_values
        size == IF Cardinality(users) < k THEN Cardinality(users) ELSE k
    IN  {T \in SUBSET users :
            /\ Cardinality(T) = size
            /\ \A a \in T, b \in users \ T : final_values[a] >= final_values[b]}

----------------------------------------------------------------------------
(* plot_cumulative_prs_by_user: one series per author of one year *)

\* Lines 316-320
with_user_display(df, col) ==
    [i \in DOMAIN df |-> df[i] @@ ("user_display" :> user_display_of(df[i][col]))]

\* Lines 322-342
cumulative_data_by_user(df_year) ==
    LET users == sorted(Range(Column(df_year, "user_display")))
        of_user(user) ==
            LET user_df == SelectSeq(df_year, LAMBDA r : r.user_display = user)
                max_day == MaxOf(days_of(user_df))
            IN  IF Len(user_df) = 0 THEN <<>>
                ELSE LET days == series_days(max_day)
                     IN  [i \in DOMAIN days |->
                            [day_of_year |-> days[i],
                             cumulative_prs |->
                                 SumSeq(Column(rows_up_to(user_df, days[i]), "weight")),
                             user |-> user]]
    IN  Concat([i \in DOMAIN users |-> of_user(users[i])])

\* Lines 363-387 and 598-622
initial_traces_by_user(df_cumulative, top_n_users) ==
    LET users == unique(Column(df_cumulative, "user"))
    IN  Concat([i \in DOMAIN users |->
            << Scatter("lines", users[i], <<>>, <<>>, <<>>),
               Scatter(IF users[i] \in top_n_users THEN "markers+text" ELSE "markers",
                       users[i], <<>>, <<>>, <<>>) >>])

\* Lines 389-434
frames_by_user(df_cumulative, top_n_users) ==
    LET users == unique(Column(df_cumulative, "user"))
        max_day == MaxOf(days_of(df_cumulative))
        days == frame_days(max_day)
        traces(day, user) ==
            LET user_data == SelectSeq(df_cumulative, LAMBDA r : r.user = user)
                max_day_for_user == MaxOf(days_of(user_data))
                user_data_up_to_day ==
                    SelectSeq(user_data, LAMBDA r : r.day_of_year <= day)
                point == current_point(user_data, user_data_up_to_day, day,
                                       max_day_for_user)
                show_text == user \in top_n_users
            IN  << Scatter("lines", user,
                           Column(user_data_up_to_day, "day_of_year"),
                           Column(user_data_up_to_day, "cumulative_prs"), <<>>),
                   IF Len(point) > 0
                     THEN Scatter(IF show_text THEN "markers+text" ELSE "markers",
                                  user, Column(point, "day_of_year"),
                                  Column(point, "cumulative_prs"),
                                  IF show_text THEN <<user>> ELSE <<>>)
                     ELSE Scatter("markers", "", <<>>, <<>>, <<>>) >>
    IN  [i \in DOMAIN days |->
            [name |-> ToString(days[i]),
             data |-> Concat([j \in DOMAIN users |-> traces(days[i], users[j])])]]

\* The possible returns of
\* plot_cumulative_prs_by_user(dataset_selection, year, weight_by)
plot_cumulative_prs_by_user(dataset_selection, year, weight_by) ==
    IF Len(dataset_selection) = 0 THEN {Outcome(EmptyFigure, NoLocals)}
    ELSE LET df == isin(df_all_prs, dataset_selection) IN
    IF to_datetime_raises(df) THEN {Outcome(Raised("ValueError"), NoLocals)}
    ELSE LET df_year == SelectSeq(preprocess(df), LAMBDA r : r.year = year) IN
    IF Len(df_year) = 0 THEN {Outcome(EmptyFigure, NoLocals)}
    ELSE LET df_weighted ==
                 with_weight(with_user_display(df_year, "user_login"), weight_by)
             df_cumulative == cumulative_data_by_user(df_weighted)
             final_values == groupby_max(df_cumulative, "cumulative_prs")
         IN  IF Len(df_cumulative) = 0 THEN {Outcome(EmptyFigure, NoLocals)}
             ELSE {Outcome([raised |-> "",
                            data |-> initial_traces_by_user(df_cumulative, top),
                            frames |-> frames_by_user(df_cumulative, top)],
                           [NoLocals EXCEPT !.df_cumulative = df_cumulative,
                                            !.top_n_users = top]) :
                      top \in head_index_sets(final_values, n)}

----------------------------------------------------------------------------
(* plot_cumulative_reviews_by_user: one series per requested reviewer *)

\* The text '[]'
EmptyListText == <<P("["), P("]")>>

\* A faulty variant: a list with an entry without a login gives no record
records_all_or_none(row, reviewers_list) ==
    IF \A k \in DOMAIN reviewers_list.val.items :
          /\ reviewers_list.val.items[k].t = "dict"
          /\ dict_contains(reviewers_list.val.items[k], "login")
      THEN [i \in DOMAIN reviewers_list.val.items |->
              [reviewer_login |-> dict_get(reviewers_list.val.items[i], "login").v,
               merged_at |-> row.merged_at,
               day_of_year |-> row.day_of_year,
               date |-> row.date]]
      ELSE <<>>

\* The records of a row whose field decoded to reviewers_list (lines 537-545)
records_of_list(row, reviewers_list) ==
    LET with_login ==
            SelectSeq(reviewers_list.val.items,
                      LAMBDA d : d.t = "dict" /\ dict_contains(d, "login"))
    IN  [i \in DOMAIN with_login |->
            [reviewer_login |-> dict_get(with_login[i], "login").v,
             merged_at |-> row.merged_at,
             day_of_year |-> row.day_of_year,
             date |-> row.date]]

\* Lines 535-547: the try block, given what literal_eval returned or raised:
\* the records, or the exception that leaves the loop (the handler catches
\* ValueError and SyntaxError only)
records_of_decoded(row, reviewers_list) ==
    IF reviewers_list.exc \in {"ValueError", "SyntaxError"} THEN Value(<<>>)
    ELSE IF reviewers_list.exc # "" THEN reviewers_list
    ELSE IF reviewers_list.val.t = "list" /\ Len(reviewers_list.val.items) > 0
      THEN Value(records_of_list(row, reviewers_list))
    ELSE Value(<<>>)

\* Lines 530-547: the body of the loop, for one row
review_records_of(row) ==
    IF isna(row.requested_reviewers) \/ row.requested_reviewers = EmptyListText
      THEN Value(<<>>)
      ELSE records_of_decoded(row, literal_eval(row.requested_reviewers))

RECURSIVE expand_reviews(_)

\* The records so far, then those of the rest
items_cons_seq(records, r) == IF r.exc # "" THEN r ELSE Value(records \o r.val)

\* The records of the first row h, then those of the rest
records_after(df_year, h) ==
    IF h.exc # "" THEN h ELSE items_cons_seq(h.val, expand_reviews(Tail(df_year)))

\* Lines 529-547: the loop over df_year.iterrows()
expand_reviews(df_year) ==
    IF df_year = <<>> THEN Value(<<>>)
    ELSE records_after(df_year, review_records_of(Head(df_year)))

\* Lines 557-577
cumulative_data_by_reviewer(df_reviews) ==
    LET users == sorted(Range(Column(df_reviews, "user_display")))
        of_user(user) ==
            LET user_df == SelectSeq(df_reviews, LAMBDA r : r.user_display = user)
                max_day == MaxOf(days_of(user_df))
            IN  IF Len(user_df) = 0 THEN <<>>
                ELSE LET days == series_days(max_day)
                     IN  [i \in DOMAIN days |->
                            [day_of_year |-> days[i],
                             cumulative_reviews |->
                                 Len(rows_up_to(user_df, days[i])),
                             user |-> user]]
    IN  Concat([i \in DOMAIN users |-> of_user(users[i])])

\* Lines 624-669
frames_by_reviewer(df_cumulative, top_n_users) ==
    LET users == unique(Column(df_cumulative, "user"))
        max_day == MaxOf(days_of(df_cumulative))
        days == frame_days(max_day)
        traces(day, user) ==
            LET user_data == SelectSeq(df_cumulative, LAMBDA r : r.user = user)
                max_day_for_user == MaxOf(days_of(user_data))
                user_data_up_to_day ==
                    SelectSeq(user_data, LAMBDA r : r.day_of_year <= day)
                point == current_point(user_data, user_data_up_to_day, day,
                                       max_day_for_user)
                show_text == user \in top_n_users
            IN  << Scatter("lines", user,
                           Column(user_data_up_to_day, "day_of_year"),
                           Column(user_data_up_to_day, "cumulative_reviews"), <<>>),
                   IF Len(point) > 0
                     THEN Scatter(IF show_text THEN "markers+text" ELSE "markers",
                                  user, Column(point, "day_of_year"),
                                  Column(point, "cumulative_reviews"),
                                  IF show_text THEN <<user>> ELSE <<>>)
                     ELSE Scatter("markers", "", <<>>, <<>>, <<>>) >>
    IN  [i \in DOMAIN days |->
            [name |-> ToString(days[i]),
             data |-> Concat([j \in DOMAIN users |-> traces(days[i], users[j])])]]

\* The possible returns of plot_cumulative_reviews_by_user(dataset_selection, year)
plot_cumulative_reviews_by_user(dataset_selection, year) ==
    IF Len(dataset_selection) = 0 THEN {Outcome(EmptyFigure, NoLocals)}
    ELSE LET df == isin(df_all_prs, dataset_selection) IN
    IF to_datetime_raises(df) THEN {Outcome(Raised("ValueError"), NoLocals)}
    ELSE LET df_year == SelectSeq(preprocess(df), LAMBDA r : r.year = year) IN
    IF Len(df_year) = 0 THEN {Outcome(EmptyFigure, NoLocals)}
    ELSE LET review_records == expand_reviews(df_year) IN
    IF review_records.exc # "" THEN {Outcome(Raised(review_records.exc), NoLocals)}
    ELSE IF Len(review_records.val) = 0
      THEN {Outcome(EmptyFigure, NoLocals)}
    ELSE LET df_reviews == with_user_display(review_records.val, "reviewer_login")
             df_cumulative == cumulative_data_by_reviewer(df_reviews)
             final_values == groupby_max(df_cumulative, "cumulative_reviews")
         IN  IF Len(df_cumulative) = 0
               THEN {Outcome(EmptyFigure,
                             [NoLocals EXCEPT !.review_records = review_records.val])}
             ELSE {Outcome([raised |-> "",
                            data |-> initial_traces_by_user(df_cumulative, top),
                            frames |-> frames_by_reviewer(df_cumulative, top)],
                           [df_cumulative |-> df_cumulative,
                            top_n_users |-> top,
                            review_records |-> review_records.val]) :
                      top \in head_index_sets(final_values, n)}

----------------------------------------------------------------------------
(* The inputs drawn *)

\* Merge days drawn: 1 January .. MaxDay January
MaxDay == 3

\* Rows drawn freely for one file
MaxRows == 2

\* The year the callbacks ask for (lines 833 and 852)
RequestYear == 2025

Row(login, repo, merged_at, additions, deletions, comments, reviewers) ==
    [ user_login |-> login, base_repo_name |-> repo, merged_at |-> merged_at,
      additions |-> additions, deletions |-> deletions,
      review_comment_count |-> comments, requested_reviewers |-> reviewers ]

Jan(d) == <<RequestYear, 1, d>>

Login(x) == <<P("{"), S("login"), P(":"), S(x), P("}")>>

\* [{'login': 'stearp'}]
OneReviewer == <<P("[")>> \o Login("stearp") \o <<P("]")>>

\* [{'login': 'stearp'}, {'login': 'ghost-user'}]
TwoReviewers ==
    <<P("[")>> \o Login("stearp") \o <<P(",")>> \o Login("ghost-user") \o <<P("]")>>

\* [{'id': 1}, {'login': 'ghost-user'}, 5]
MixedReviewers ==
    <<P("["), P("{"), S("id"), P(":"), N("1"), P("}"), P(",")>>
        \o Login("ghost-user") \o <<P(","), N("5"), P("]")>>

\* [{'login':
TruncatedText == <<P("["), P("{"), S("login"), P(":")>>

\* [{'login': 'stearp', 'site_admin': false}]
JsonText ==
    <<P("["), P("{"), S("login"), P(":"), S("stearp"), P(","),
      S("site_admin"), P(":"), Id("false"), P("}"), P("]")>>

\* {[]: 1}
UnhashableKeyText == <<P("{"), P("["), P("]"), P(":"), N("1"), P("}")>>

\* {'login': 'stearp'}
BareDictText == Login("stearp")

WellFormedTexts == {OneReviewer, TwoReviewers, MixedReviewers}

MalformedTexts ==
    {EmptyListText, TruncatedText, JsonText, UnhashableKeyText, BareDictText}

\* The rows of two authors, one with an alias and one without: merged on a
\* day of January, in the repository space-intelligence, no review asked
AuthorRows ==
    { Row("magdalena90", "space-intelligence", Jan(d), Num(5), Num(8), NaN, NaN) :
        d \in 1..MaxDay }
    \cup
    { Row("ghost-user", "space-intelligence", Jan(d), Num(8), NaN, Num(2), NaN) :
        d \in {1, MaxDay} }

\* Rows that ask for reviews
ReviewRows ==
    { Row("magdalena90", "space-intelligence", Jan(d), Num(5), Num(8), NaN, t) :
        d \in {1, MaxDay}, t \in WellFormedTexts }
    \cup
    { Row("magdalena90", "space-intelligence", Jan(1), Num(5), Num(8), NaN, t) :
        t \in MalformedTexts }

\* A row of another year, a row never merged, a row whose merged_at is no
\* timestamp, a row of each other repository, a row of the bot, a row with
\* too many additions, a row without additions
OtherRows ==
    { Row("magdalena90", "space-intelligence", <<RequestYear - 1, 1, 2>>,
          Num(5), Num(8), NaN, OneReviewer),
      Row("magdalena90", "space-intelligence", NaN, Num(5), Num(8), NaN, OneReviewer),
      Row("magdalena90", "space-intelligence", <<0>>, Num(5), Num(8), NaN, NaN),
      Row("magdalena90", "mapper-project-template", Jan(1), Num(5), Num(8), NaN,
          OneReviewer),
      Row("magdalena90", "a-qgis-plugin", Jan(1), Num(5), Num(8), NaN, OneReviewer),
      Row(BotLogin, "space-intelligence", Jan(1), Num(5), Num(8), NaN, OneReviewer),
      Row("magdalena90", "space-intelligence", Jan(1), Num(MaxAdditions + 1),
          Num(8), NaN, OneReviewer),
      Row("magdalena90", "space-intelligence", Jan(1), NaN, Num(8), NaN, OneReviewer) }

RECURSIVE SetToSeq(_)
SetToSeq(T) ==
    IF T = {} THEN <<>>
    ELSE LET x == CHOOSE y \in T : TRUE IN <<x>> \o SetToSeq(T \ {x})

AuthorSeq == SetToSeq(AuthorRows)

\* The sequences of up to k rows of AuthorRows, one per multiset of rows (no
\* handler depends on the order of the rows of the file)
AuthorFiles(k) ==
    UNION { { [i \in 1..len |-> AuthorSeq[idx[i]]] :
                idx \in { f \in [1..len -> DOMAIN AuthorSeq] :
                            \A i \in 1..(len - 1) : f[i] <= f[i + 1] } } :
            len \in 0..k }

\* Up to MaxRows rows: author rows, among them at most one other row
FreeFiles ==
    AuthorFiles(MaxRows)
    \cup { <<r>> \o rows : r \in ReviewRows \cup OtherRows,
                           rows \in AuthorFiles(MaxRows - 1) }

\* What follows the block: author rows, or one other row
AfterBlock == AuthorFiles(MaxRows) \cup { <<r>> : r \in ReviewRows \cup OtherRows }

\* A block of n authors with one merged PR each on 1 January, of growing
\* size, each asking one reviewer of its own
BlockAuthors ==
    << "magdalena90", "Alex-Mackie", "DavidMc123", "KBodolai", "SelenaGeo",
       "WillBriggs-SI", "adamnoach" >>

BlockReviewers ==
    << "stearp", "aneeshnaik", "anna-fumagalli", "euan-si", "natborn2",
       "nestorSag", "oliver-mcf" >>

Block ==
    [ i \in 1..n |->
        Row(BlockAuthors[i], "space-intelligence", Jan(1), Num(10 + i), Num(2), NaN,
            <<P("[")>> \o Login(BlockReviewers[i]) \o <<P("]")>>) ]

Inputs == FreeFiles \cup { Block \o rows : rows \in AfterBlock }

\* The checklists' values drawn: nothing checked, one box, every box
Checked ==
    { << <<>>, <<>>, <<>> >>,
      << <<>>, <<"space_intelligence">>, <<>> >>,
      << <<"mapper_template">>, <<"space_intelligence">>, <<"qgis_plugins">> >> }

\* The dropdown's options (lines 770-775), and None once it is cleared
WeightValues == {"pr_count", "lines_added", "net_lines", "comments", "None"}

----------------------------------------------------------------------------
(* The state machine: the page is loaded over some file, its controls are  *)
(* in some state, and the three callbacks run on them.                     *)

\* setup_project.py is a script of its own: the application never runs it
SetupNotRun ==
    /\ activate_script = <<>> /\ deactivate_script = <<>> /\ environ = ""
    /\ file_data = <<>> /\ lineno = 0 /\ overwrite = FALSE
    /\ pc = "idle" /\ runs = 0 /\ prior = <<>>

NoRequest == [fn |-> "", dataset_selection |-> <<>>, year |-> 0, weight_by |-> ""]

Init ==
    /\ csv \in Inputs
    /\ df_all_prs = LoadData(csv)
    /\ user_aliases = user_aliases_literal
    /\ \E c \in Checked :
          dataset_mapper = c[1] /\ dataset_space = c[2] /\ dataset_qgis = c[3]
    /\ weight_dropdown \in WeightValues
    /\ req = NoRequest
    /\ fig = EmptyFigure
    /\ loc = NoLocals
    /\ cw_row = <<>> /\ cw_weight_by = "" /\ cw_result = <<>>
    /\ SetupNotRun

\* Lines 806-812, 826-832, 845-851: a checklist's value is extended into
\* the selection when it is not empty
combined_selection(mapper_checked, space_checked, qgis_checked) ==
    (IF Len(mapper_checked) > 0 THEN mapper_checked ELSE <<>>)
        \o (IF Len(space_checked) > 0 THEN space_checked ELSE <<>>)
        \o (IF Len(qgis_checked) > 0 THEN qgis_checked ELSE <<>>)

update_year_graph ==
    LET dataset_selection ==
            combined_selection(dataset_mapper, dataset_space, dataset_qgis)
    IN  /\ req' = [fn |-> "plot_cumulative_prs",
                   dataset_selection |-> dataset_selection,
                   year |-> 0, weight_by |-> weight_dropdown]
        /\ \E out \in plot_cumulative_prs(dataset_selection, weight_dropdown) :
              fig' = out.fig /\ loc' = out.loc
        /\ UNCHANGED <<csv, df_all_prs, user_aliases, controls, weight_vars, setup_vars>>

update_user_graph ==
    LET dataset_selection ==
            combined_selection(dataset_mapper, dataset_space, dataset_qgis)
    IN  /\ req' = [fn |-> "plot_cumulative_prs_by_user",
                   dataset_selection |-> dataset_selection,
                   year |-> RequestYear, weight_by |-> weight_dropdown]
        /\ \E out \in plot_cumulative_prs_by_user(dataset_selection, RequestYear,
                                                  weight_dropdown) :
              fig' = out.fig /\ loc' = out.loc
        /\ UNCHANGED <<csv, df_all_prs, user_aliases, controls, weight_vars, setup_vars>>

update_reviews_graph ==
    LET dataset_selection ==
            combined_selection(dataset_mapper, dataset_space, dataset_qgis)
    IN  /\ req' = [fn |-> "plot_cumulative_reviews_by_user",
                   dataset_selection |-> dataset_selection,
                   year |-> RequestYear, weight_by |-> ""]
        /\ \E out \in plot_cumulative_reviews_by_user(dataset_selection, RequestYear) :
              fig' = out.fig /\ loc' = out.loc
        /\ UNCHANGED <<csv, df_all_prs, user_aliases, controls, weight_vars, setup_vars>>

Next ==
    \/ update_year_graph
    \/ update_user_graph
    \/ update_reviews_graph

Spec == Init /\ [][Next]_vars

----------------------------------------------------------------------------
(* calculate_weight alone, on one row and one metric name *)

\* Numeric cells drawn: 0 .. MaxCell
MaxCell == 2

Cells == {NaN} \cup { Num(x) : x \in 0..MaxCell }

\* The rows drawn: the three columns calculate_weight reads
WeightRows ==
    { [additions |-> a, deletions |-> d, review_comment_count |-> c] :
        a \in Cells, d \in Cells, c \in Cells }

\* The metric names drawn: the dropdown's, no value, and a name that is none
\* of them
MetricNames == WeightValues \cup {"lines_removed"}

InitWeight ==
    /\ cw_row \in WeightRows
    /\ cw_weight_by \in MetricNames
    /\ cw_result = <<>>
    /\ csv = <<>> /\ df_all_prs = <<>>
    /\ user_aliases = user_aliases_literal
    /\ dataset_mapper = <<>> /\ dataset_space = <<>> /\ dataset_qgis = <<>>
    /\ weight_dropdown = "pr_count"
    /\ req = NoRequest /\ fig = EmptyFigure /\ loc = NoLocals
    /\ SetupNotRun

\* calculate_weight(row, weight_by) is called and returns
call_calculate_weight ==
    /\ cw_result = <<>>
    /\ cw_result' = <<calculate_weight(cw_row, cw_weight_by)>>
    /\ UNCHANGED <<cw_row, cw_weight_by, app_vars, setup_vars>>

NextWeight == call_calculate_weight

SpecWeight == InitWeight /\ [][NextWeight]_vars

----------------------------------------------------------------------------
(* setup_project.py: set_root_dir_env_var, a step per iteration of its      *)
(* first loop.  A file is the sequence of its pieces of text, the newline   *)
(* one of them; a line is such a sequence too.                              *)

MaxLines == 2
MaxRuns == 2

NL == "\n"

ExportText == "export SI_ROOT_DIR="

UnsetText == "unset SI_ROOT_DIR"

\* os.getcwd()
root_dir == "/home/me/project"

\* f"export SI_ROOT_DIR={root_dir}", lines 34 and 36: no newline at its end
export_line == <<ExportText, root_dir>>

\* file.readlines(): the content cut after each newline, the newline kept
RECURSIVE readlines(_)
readlines_cut(content, e) ==
    <<SubSeq(content, 1, e)>> \o readlines(SubSeq(content, e + 1, Len(content)))

readlines(content) ==
    IF content = <<>> THEN <<>>
    ELSE LET ends == { i \in DOMAIN content : content[i] = NL }
         IN  IF ends = {} THEN <<content>>
             ELSE readlines_cut(content, CHOOSE i \in ends : \A j \in ends : i <= j)

\* file.writelines(lines): the lines one after the other, nothing between
writelines(lines) == Concat(lines)

\* text in line
contains(line, text) == text \in Range(line)

\* Lines 21-28: the activate script is touched and read
start_set_root_dir ==
    /\ pc = "idle"
    /\ runs < MaxRuns
    /\ file_data' = readlines(activate_script)
    /\ overwrite' = FALSE
    /\ lineno' = 1
    /\ prior' = activate_script
    /\ pc' = "for"
    /\ UNCHANGED <<activate_script, deactivate_script, environ, runs,
                   app_vars, weight_vars>>

\* Lines 29-36: one iteration of the loop over enumerate(file_data), which
\* goes on over the lines the iterations before appended
loop_set_root_dir ==
    /\ pc = "for"
    /\ lineno <= Len(file_data)
    /\ IF contains(file_data[lineno], ExportText)
         THEN /\ overwrite' = TRUE
              /\ pc' = "write"
              /\ UNCHANGED <<file_data, lineno>>
         ELSE /\ file_data' = IF overwrite
                                THEN [file_data EXCEPT ![lineno] = export_line]
                                ELSE Append(file_data, export_line)
              /\ lineno' = lineno + 1
              /\ UNCHANGED <<overwrite, pc>>
    /\ UNCHANGED <<activate_script, deactivate_script, environ, runs, prior,
                   app_vars, weight_vars>>

\* Lines 40-50, on the content of the deactivate script
deactivate_written(content) ==
    LET lines == readlines(content)
        done == \E i \in DOMAIN lines : contains(lines[i], UnsetText)
    IN  writelines(IF done THEN lines ELSE Append(lines, <<UnsetText>>))

\* Lines 37-52: the loop is over (by break or at the end of the list); both
\* scripts are written and the variable is set in the environment
finish_set_root_dir ==
    /\ pc = "write" \/ (pc = "for" /\ lineno > Len(file_data))
    /\ activate_script' = writelines(file_data)
    /\ deactivate_script' = deactivate_written(deactivate_script)
    /\ environ' = root_dir
    /\ runs' = runs + 1
    /\ pc' = "idle"
    /\ UNCHANGED <<file_data, lineno, overwrite, prior, app_vars, weight_vars>>

\* The lines a script may hold before the first run
OtherLine == <<"export PATH=", "/usr/local/bin">>

OldExportLine == <<ExportText, "/home/me/old">>

ScriptLines == {OtherLine, OldExportLine, export_line}

\* The files of up to MaxLines lines, the last line with or without newline
ScriptContents ==
    { Concat([i \in 1..k |-> ls[i] \o (IF i < k \/ nl THEN <<NL>> ELSE <<>>)]) :
        k \in 0..MaxLines, ls \in [1..MaxLines -> ScriptLines], nl \in BOOLEAN }

InitSetup ==
    /\ activate_script \in ScriptContents
    /\ deactivate_script \in {<<>>, <<UnsetText, NL>>, <<UnsetText>>}
    /\ environ = ""
    /\ file_data = <<>> /\ lineno = 0 /\ overwrite = FALSE
    /\ pc = "idle" /\ runs = 0 /\ prior = <<>>
    /\ csv = <<>> /\ df_all_prs = <<>>
    /\ user_aliases = user_aliases_literal
    /\ dataset_mapper = <<>> /\ dataset_space = <<>> /\ dataset_qgis = <<>>
    /\ weight_dropdown = "pr_count"
    /\ req = NoRequest /\ fig = EmptyFigure /\ loc = NoLocals
    /\ cw_row = <<>> /\ cw_weight_by = "" /\ cw_result = <<>>

NextSetup ==
    \/ start_set_root_dir
    \/ loop_set_root_dir
    \/ finish_set_root_dir

SpecSetup == InitSetup /\ [][NextSetup]_vars

----------------------------------------------------------------------------
(* The events of the last call, as the specification defines them: the     *)
(* rows of the loaded frame of a selected source, merged, of the year      *)
(* asked for (any year in the view by year); in the reviewer view, an      *)
(* event per entry with a login of each such row's decoded list.           *)

ByYear == req.fn = "plot_cumulative_prs"

ByUser == req.fn = "plot_cumulative_prs_by_user"

ByReviewer == req.fn = "plot_cumulative_reviews_by_user"

\* The call returned (it did not raise)
Returned == req.fn # "" /\ fig.raised = ""

KeyCol == IF ByYear THEN "year" ELSE "user"

ValCol == IF ByReviewer THEN "cumulative_reviews" ELSE "cumulative_prs"

EventRows ==
    { i \in DOMAIN df_all_prs :
        /\ df_all_prs[i].source \in Range(req.dataset_selection)
        /\ notna(df_all_prs[i].merged_at)
        /\ parseable(df_all_prs[i].merged_at)
        /\ (ByYear \/ dt_year(df_all_prs[i].merged_at) = req.year) }

\* The entries with a login of the decoded value v, when it is a list
LoginEntriesOf(v) ==
    IF v.exc = "" /\ v.val.t = "list"
      THEN { j \in DOMAIN v.val.items :
               v.val.items[j].t = "dict" /\ dict_contains(v.val.items[j], "login") }
      ELSE {}

\* The entries with a login of the list a row's requested_reviewers decodes to
LoginEntries(row) ==
    IF isna(row.requested_reviewers) THEN {}
    ELSE LoginEntriesOf(literal_eval(row.requested_reviewers))

EntryLogin(row, j) == dict_get(literal_eval(row.requested_reviewers).val.items[j], "login").v

Events ==
    IF ByReviewer
      THEN UNION { { [id |-> <<i, j>>,
                      key |-> user_display_of(EntryLogin(df_all_prs[i], j)),
                      day |-> dt_dayofyear(df_all_prs[i].merged_at),
                      weight |-> 1] : j \in LoginEntries(df_all_prs[i]) } :
                   i \in EventRows }
      ELSE { [id |-> <<i, 0>>,
              key |-> IF ByYear THEN ToString(dt_year(df_all_prs[i].merged_at))
                      ELSE user_display_of(df_all_prs[i].user_login),
              day |-> dt_dayofyear(df_all_prs[i].merged_at),
              weight |-> calculate_weight(df_all_prs[i], req.weight_by)] :
                i \in EventRows }

RECURSIVE SumWeights(_)
SumWeights(E) ==
    IF E = {} THEN 0
    ELSE LET e == CHOOSE x \in E : TRUE IN e.weight + SumWeights(E \ {e})

\* What the events define: for each group with an event, and each day d from
\* 1 to the group's max_day (the largest day of its events), the sum of the
\* weights of the group's events up to day d
Cumulative ==
    LET ev == Events
        series(g) ==
            LET events_of_g == { e \in ev : e.key = g }
                max_day == MaxOf({ e.day : e \in events_of_g })
            IN  [d \in 1..max_day |->
                    SumWeights({ e \in events_of_g : e.day <= d })]
    IN  [g \in { e.key : e \in ev } |-> series(g)]

Groups == DOMAIN Cumulative

EventsOf(g) == { e \in Events : e.key = g }

GroupMaxDay(g) == Len(Cumulative[g])

\* The sum of the weights of the events of g up to day d
CumulativeWeight(g, d) == Cumulative[g][d]

\* The rows of df_cumulative recorded for group g (and day d)
SeriesRows(g) ==
    { i \in DOMAIN loc.df_cumulative : loc.df_cumulative[i][KeyCol] = g }

PointRows(g, d) ==
    { i \in SeriesRows(g) : loc.df_cumulative[i].day_of_year = d }

----------------------------------------------------------------------------
(* C1 .. C3: the cumulative series *)

\* C1: in each of the three views, for every group g and every day d with
\* 1 <= d <= max_day(g), a cumulative value is recorded for (g, d) and it is
\* the sum of the weights of the events of g whose day_of_year is <= d
\* (a reviewer event weighing 1).
C1_CumulativeIsSumOfWeights ==
    Returned =>
        LET cum == Cumulative
        IN  \A g \in DOMAIN cum : \A d \in 1..Len(cum[g]) :
                /\ PointRows(g, d) # {}
                /\ \A i \in PointRows(g, d) :
                      loc.df_cumulative[i][ValCol] = cum[g][d]

\* C1's case: a contributor series weighted by lines added that steps twice
C1_Witness ==
    /\ Returned /\ ByUser /\ req.weight_by = "lines_added"
    /\ \E g \in Groups : \E d \in 1..GroupMaxDay(g) :
          /\ 0 < CumulativeWeight(g, d)
          /\ CumulativeWeight(g, d) < CumulativeWeight(g, GroupMaxDay(g))
          /\ PointRows(g, d) # {}

\* C2: every group's series has exactly max_day rows, one for each day
\* 1..max_day, where max_day is the largest day_of_year of the group's
\* events; no row lies past max_day and no row belongs to another group.
C2_SeriesCoversDaysOnce ==
    Returned =>
        LET cum == Cumulative
        IN  /\ \A g \in DOMAIN cum :
                  /\ Cardinality(SeriesRows(g)) = Len(cum[g])
                  /\ \A d \in 1..Len(cum[g]) : Cardinality(PointRows(g, d)) = 1
            /\ \A i \in DOMAIN loc.df_cumulative :
                  loc.df_cumulative[i][KeyCol] \in DOMAIN cum

\* C2's case: a group whose only events are on its last day, after day 1
C2_Witness ==
    /\ Returned
    /\ \E g \in Groups :
          /\ GroupMaxDay(g) > 2
          /\ \A e \in EventsOf(g) : e.day = GroupMaxDay(g)
          /\ Cardinality(SeriesRows(g)) = GroupMaxDay(g)

\* The weight metrics whose weights are not negative
MonotoneMetric == ByReviewer \/ req.weight_by \in {"pr_count", "lines_added", "comments"}

\* C3: for d1 < d2 <= max_day the value at d2 is at least the value at d1
\* whenever the weight metric is count, lines_added or comments.
C3_NonDecreasing ==
    (Returned /\ MonotoneMetric) =>
        \A i, j \in DOMAIN loc.df_cumulative :
            ( /\ loc.df_cumulative[i][KeyCol] = loc.df_cumulative[j][KeyCol]
              /\ loc.df_cumulative[i].day_of_year < loc.df_cumulative[j].day_of_year )
            => loc.df_cumulative[i][ValCol] <= loc.df_cumulative[j][ValCol]

\* C3's case: a series under lines_added that grows from one day to a later one
C3_Witness ==
    /\ Returned /\ req.weight_by = "lines_added" /\ ~ByReviewer
    /\ \E i, j \in DOMAIN loc.df_cumulative :
          /\ loc.df_cumulative[i][KeyCol] = loc.df_cumulative[j][KeyCol]
          /\ loc.df_cumulative[i].day_of_year < loc.df_cumulative[j].day_of_year
          /\ 0 < loc.df_cumulative[i][ValCol]
          /\ loc.df_cumulative[i][ValCol] < loc.df_cumulative[j][ValCol]

----------------------------------------------------------------------------
(* C4, C5: the frames *)

Min(a, b) == IF a <= b THEN a ELSE b

\* The day a frame samples: frames are built for frame_days in order
FrameDay(k) == 2 * k - 1

\* The marker traces of group g in frame k
Markers(k, g) ==
    { t \in DOMAIN fig.frames[k].data :
        /\ fig.frames[k].data[t].mode \in {"markers", "markers+text"}
        /\ fig.frames[k].data[t].name = g }

\* The branch `len(current_point) == 0` under `day <= max_day_for` is entered
\* for group g in the frame of day d
FallbackTaken(g, d) ==
    LET data == SelectSeq(loc.df_cumulative, LAMBDA r : r[KeyCol] = g)
        data_up_to_day == rows_up_to(data, d)
    IN  /\ d <= MaxOf(days_of(data))
        /\ Len(SelectSeq(data_up_to_day, LAMBDA r : r.day_of_year = d)) = 0

\* C4: in every frame, of sampled day d, the marker of every group g is g's
\* cumulative point at day min(d, max_day(g)): the point of day d itself up
\* to max_day(g), which exists, so that the fallback to the latest prior
\* point is not taken, and the point of max_day(g) after it.
C4_MarkerAtMinOfDayAndMaxDay ==
    Returned =>
        LET cum == Cumulative
        IN  \A k \in DOMAIN fig.frames : \A g \in DOMAIN cum :
                LET d == FrameDay(k)
                    at == Min(d, Len(cum[g]))
                IN  /\ fig.frames[k].name = ToString(d)
                    /\ ~FallbackTaken(g, d)
                    /\ Markers(k, g) # {}
                    /\ \A t \in Markers(k, g) :
                          /\ fig.frames[k].data[t].x = <<at>>
                          /\ fig.frames[k].data[t].y = <<cum[g][at]>>

\* C4's case: in one frame a group is at the frame's day and another group
\* is held at its earlier last day
C4_Witness ==
    /\ Returned
    /\ \E k \in DOMAIN fig.frames : \E g, h \in Groups :
          /\ GroupMaxDay(g) < FrameDay(k)
          /\ FrameDay(k) <= GroupMaxDay(h)
          /\ \E t \in Markers(k, g) : fig.frames[k].data[t].x = <<GroupMaxDay(g)>>
          /\ \E t \in Markers(k, h) : fig.frames[k].data[t].x = <<FrameDay(k)>>

GlobalMaxDay ==
    LET cum == Cumulative
    IN  IF DOMAIN cum = {} THEN 0 ELSE MaxOf({ Len(cum[g]) : g \in DOMAIN cum })

\* C5: the frames are those of the days 1, 3, 5, ... up to the largest
\* max_day of the groups, in increasing order of day: ceil(global max_day / 2)
\* frames, each named by its day.
C5_FramesAtOddDays ==
    Returned =>
        LET global_max_day == GlobalMaxDay
        IN  /\ Len(fig.frames) = (global_max_day + 1) \div 2
            /\ \A k \in DOMAIN fig.frames :
                  /\ fig.frames[k].name = ToString(2 * k - 1)
                  /\ 2 * k - 1 <= global_max_day
            /\ \A d \in 1..global_max_day :
                  d % 2 = 1 =>
                      \E k \in DOMAIN fig.frames : fig.frames[k].name = ToString(d)

\* C5's case: a global max_day past 2, so that a day is skipped, with the
\* last frame on the last odd day
C5_Witness ==
    /\ Returned
    /\ GlobalMaxDay > 2
    /\ Len(fig.frames) > 1
    /\ fig.frames[Len(fig.frames)].name = ToString(GlobalMaxDay - (1 - (GlobalMaxDay % 2)))

----------------------------------------------------------------------------
(* C6 .. C8: the labelled groups and the markers *)

ByUserOrReviewer == ByUser \/ ByReviewer

KeyRank(g) == CHOOSE i \in DOMAIN KeyOrder : KeyOrder[i] = g

\* The first n groups in the order of final_cumulative descending, ties by
\* group_key ascending
FirstNByFinalCumulative ==
    LET cum == Cumulative
        final(g) == cum[g][Len(cum[g])]
        before(h, g) ==
            \/ final(h) > final(g)
            \/ final(h) = final(g) /\ KeyRank(h) < KeyRank(g)
    IN  { g \in DOMAIN cum : Cardinality({ h \in DOMAIN cum : before(h, g) }) < n }

\* C6: in the views by contributor and by reviewer the labelled set is the
\* first 7 groups in the order of final_cumulative descending, ties by
\* group_key ascending, whatever the weight metric.
C6_TopNByFinalCumulative ==
    (Returned /\ ByUserOrReviewer) => loc.top_n_users = FirstNByFinalCumulative

\* The groups whose marker carries a label in frame k
Labelled(k) ==
    { fig.frames[k].data[t].name :
        t \in { u \in DOMAIN fig.frames[k].data :
                  /\ fig.frames[k].data[u].mode = "markers+text"
                  /\ Len(fig.frames[k].data[u].text) > 0 } }

\* C7: in the views by contributor and by reviewer the groups labelled in a
\* frame are min(7, number of groups with events) many, and the same groups
\* in every frame.
C7_LabelledSetSizeAndStable ==
    (Returned /\ ByUserOrReviewer) =>
        LET groups == Groups
        IN  \A k \in DOMAIN fig.frames :
                /\ Cardinality(Labelled(k)) = Min(n, Cardinality(groups))
                /\ Labelled(k) \subseteq groups
                /\ Labelled(k) = Labelled(1)

\* C7's case: more than 7 groups and more than one frame
C7_Witness ==
    /\ Returned /\ ByUserOrReviewer
    /\ Cardinality(Groups) > n
    /\ Len(fig.frames) > 1
    /\ Cardinality(Labelled(Len(fig.frames))) = n

NonEmptyMarkers(k, g) ==
    { t \in Markers(k, g) : Len(fig.frames[k].data[t].x) > 0 }

\* C8: every frame has exactly one marker, with a point, for each group with
\* an event after filtering, and no trace of any other group.
C8_OneMarkerPerGroupWithEvents ==
    Returned =>
        LET groups == Groups
        IN  \A k \in DOMAIN fig.frames :
                /\ \A g \in groups :
                      /\ Cardinality(Markers(k, g)) = 1
                      /\ Cardinality(NonEmptyMarkers(k, g)) = 1
                /\ \A t \in DOMAIN fig.frames[k].data :
                      fig.frames[k].data[t].name \in groups

\* C8's case: a group with all its events after the first frame's day has
\* its marker in the first frame, and the author of a row that the filters
\* removed is in no frame
C8_Witness ==
    /\ Returned /\ ByUser
    /\ Len(fig.frames) > 1
    /\ \E g \in Groups :
          /\ \A e \in EventsOf(g) : e.day > FrameDay(1)
          /\ Cardinality(NonEmptyMarkers(1, g)) = 1
    /\ \E i \in DOMAIN csv :
          /\ user_display_of(csv[i].user_login) \notin Groups
          /\ \A k \in DOMAIN fig.frames : Markers(k, user_display_of(csv[i].user_login)) = {}

----------------------------------------------------------------------------
(* C9, C10: the reviewer events *)

\* The call reaches the loop over the rows of the year
ExpansionRuns ==
    /\ ByReviewer
    /\ ~to_datetime_raises(isin(df_all_prs, req.dataset_selection))

\* C9: in the view by reviewer a row whose requested_reviewers is missing,
\* "[]" or malformed gives no event and nothing is raised: the records are
\* those of the entries with a login of the rows that decode.
C9_MalformedFieldIsSkipped ==
    ExpansionRuns =>
        /\ fig.raised = ""
        /\ Len(loc.review_records) = Cardinality(Events)

\* The (row, entry) pairs of the events with this login and this timestamp
EntriesLike(login, merged_at) ==
    UNION { { <<i, j>> : j \in { x \in LoginEntries(df_all_prs[i]) :
                                   EntryLogin(df_all_prs[i], x) = login } } :
            i \in { y \in EventRows : df_all_prs[y].merged_at = merged_at } }

RecordsLike(login, merged_at) ==
    { k \in DOMAIN loc.review_records :
        /\ loc.review_records[k].reviewer_login = login
        /\ loc.review_records[k].merged_at = merged_at }

\* C10: in the view by reviewer a row whose field decodes to a list gives
\* one record for each entry that is a dict with a login, entries without
\* one being passed over one by one, and each record has the row's merged_at
\* and day_of_year.
C10_OneRecordPerEntryWithLogin ==
    (Returned /\ ByReviewer) =>
        /\ Len(loc.review_records) = Cardinality(Events)
        /\ \A i \in EventRows : \A j \in LoginEntries(df_all_prs[i]) :
              Cardinality(RecordsLike(EntryLogin(df_all_prs[i], j), df_all_prs[i].merged_at))
                = Cardinality(EntriesLike(EntryLogin(df_all_prs[i], j), df_all_prs[i].merged_at))
        /\ \A k \in DOMAIN loc.review_records :
              /\ loc.review_records[k].day_of_year = dt_dayofyear(loc.review_records[k].merged_at)
              /\ EntriesLike(loc.review_records[k].reviewer_login,
                             loc.review_records[k].merged_at) # {}

\* C10's case: the only row is one of two reviewers, and gives two records
\* of its day
C10_Witness ==
    /\ Returned /\ ByReviewer
    /\ Len(csv) = 1
    /\ csv[1].requested_reviewers = TwoReviewers
    /\ Len(loc.review_records) = 2
    /\ loc.review_records[1].reviewer_login # loc.review_records[2].reviewer_login
    /\ \A k \in 1..2 : loc.review_records[k].day_of_year = dt_dayofyear(csv[1].merged_at)

----------------------------------------------------------------------------
(* C11, C12: nothing to show, rows without a merge time *)

\* A plot function was called
Called == req.fn # ""

\* C11: in each view, with an empty selection, or with a selection that
\* leaves no event after filtering, the call returns the empty figure, with
\* no frame, and raises nothing.
C11_NoEventsGivesEmptyFigure ==
    (Called /\ (req.dataset_selection = <<>> \/ Events = {})) => fig = EmptyFigure

\* A selected row has no merge time: the cell is missing, or is no timestamp
UnmergedSelected ==
    \E i \in DOMAIN df_all_prs :
        /\ df_all_prs[i].source \in Range(req.dataset_selection)
        /\ ~parseable(df_all_prs[i].merged_at)

\* C12: a row whose merged_at is missing or is no timestamp is dropped before
\* grouping: with such a row selected the call does not raise on it, and the
\* series are those of the other rows' events.
C12_UnmergedRowIsDropped ==
    (Called /\ UnmergedSelected) =>
        /\ fig.raised # "ValueError"
        /\ Returned =>
              LET cum == Cumulative
              IN  /\ \A g \in DOMAIN cum : \A d \in 1..Len(cum[g]) :
                        /\ PointRows(g, d) # {}
                        /\ \A i \in PointRows(g, d) :
                              loc.df_cumulative[i][ValCol] = cum[g][d]
                  /\ \A i \in DOMAIN loc.df_cumulative :
                        loc.df_cumulative[i][KeyCol] \in DOMAIN cum

----------------------------------------------------------------------------
(* C13: calculate_weight *)

\* A numeric field, a missing one counting as 0
FieldOrZero(c) == IF c = NaN THEN 0 ELSE c[1]

----------------------------------------------------------------------------
(* C14, C15: the rows of the file that enter the aggregation *)

\* The rows of the file that are merged, of a selected source and of the
\* year asked for (any year in the view by year)
CsvSelected ==
    { i \in DOMAIN csv :
        /\ assign_source(csv[i].base_repo_name) \in Range(req.dataset_selection)
        /\ notna(csv[i].merged_at)
        /\ parseable(csv[i].merged_at)
        /\ (ByYear \/ dt_year(csv[i].merged_at) = req.year) }

CsvKey(i) ==
    IF ByYear THEN ToString(dt_year(csv[i].merged_at))
    ELSE user_display_of(csv[i].user_login)

CsvDay(i) == dt_dayofyear(csv[i].merged_at)

\* Not the bot's, and not over the limit of additions (missing additions are
\* not over it)
NotExcluded(i) ==
    /\ csv[i].user_login # BotLogin
    /\ ~(notna(csv[i].additions) /\ csv[i].additions[1] > MaxAdditions)

RECURSIVE SumAdditions(_)
SumAdditions(I) ==
    IF I = {} THEN 0
    ELSE LET i == CHOOSE x \in I : TRUE
         IN  FieldOrZero(csv[i].additions) + SumAdditions(I \ {i})

\* C14: a merged row, not the bot's, of a selected source, whose additions
\* are missing enters the aggregation with additions 0: at its day its
\* group's value counts it under pr_count and sums 0 for it under
\* lines_added; the limit of additions does not remove it.
C14_MissingAdditionsCountAsZero ==
    (Returned /\ ~ByReviewer /\ req.weight_by \in {"pr_count", "lines_added"}) =>
        \A i \in { x \in CsvSelected : NotExcluded(x) /\ isna(csv[x].additions) } :
            LET up_to == { j \in CsvSelected :
                             /\ NotExcluded(j)
                             /\ CsvKey(j) = CsvKey(i)
                             /\ CsvDay(j) <= CsvDay(i) }
                expected == IF req.weight_by = "pr_count" THEN Cardinality(up_to)
                            ELSE SumAdditions(up_to)
            IN  /\ PointRows(CsvKey(i), CsvDay(i)) # {}
                /\ \A k \in PointRows(CsvKey(i), CsvDay(i)) :
                      loc.df_cumulative[k][ValCol] = expected

\* The events of the rows of the file that the load keeps (additions
\* present), the bot's rows, the rows over the limit of additions and the
\* rows of a source that is not selected left out
CsvEvents ==
    LET rows == { i \in CsvSelected : NotExcluded(i) /\ notna(csv[i].additions) }
    IN  IF ByReviewer
          THEN UNION { { [id |-> <<i, j>>,
                          key |-> user_display_of(EntryLogin(csv[i], j)),
                          day |-> CsvDay(i),
                          weight |-> 1] : j \in LoginEntries(csv[i]) } :
                       i \in rows }
          ELSE { [id |-> <<i, 0>>,
                  key |-> CsvKey(i),
                  day |-> CsvDay(i),
                  weight |-> calculate_weight(csv[i], req.weight_by)] : i \in rows }

\* For each group of the events ev, the sums of weights up to each day
CumulativeOf(ev) ==
    LET series(g) ==
            LET events_of_g == { e \in ev : e.key = g }
                max_day == MaxOf({ e.day : e \in events_of_g })
            IN  [d \in 1..max_day |->
                    SumWeights({ e \in events_of_g : e.day <= d })]
    IN  [g \in { e.key : e \in ev } |-> series(g)]

\* C15: no row of the bot, no row with more than 30000 additions and no row
\* of a source outside the selection contributes to a value or gives a
\* reviewer event: the series, and the reviewer records, are those of the
\* other rows of the file.
C15_ExcludedRowsDoNotContribute ==
    Returned =>
        LET ev == CsvEvents
            cum == CumulativeOf(ev)
        IN  /\ \A g \in DOMAIN cum : \A d \in 1..Len(cum[g]) :
                  /\ PointRows(g, d) # {}
                  /\ \A k \in PointRows(g, d) :
                        loc.df_cumulative[k][ValCol] = cum[g][d]
            /\ \A k \in DOMAIN loc.df_cumulative :
                  loc.df_cumulative[k][KeyCol] \in DOMAIN cum
            /\ ByReviewer => Len(loc.review_records) = Cardinality(ev)

\* C15's case: the file has a row that is excluded (the bot's, over the limit
\* or of another source) that asks for a review, next to a row that counts
C15_Witness ==
    /\ Returned
    /\ loc.df_cumulative # <<>>
    /\ \E i \in DOMAIN csv :
          /\ \/ ~NotExcluded(i)
             \/ assign_source(csv[i].base_repo_name) \notin Range(req.dataset_selection)
          /\ notna(csv[i].merged_at) /\ parseable(csv[i].merged_at)
          /\ dt_year(csv[i].merged_at) = RequestYear
          /\ notna(csv[i].requested_reviewers)

----------------------------------------------------------------------------
(* C16: the group key of the views by contributor and by reviewer *)

\* The logins of the events: the authors of the rows, or the logins of the
\* entries of their reviewer lists
EventLogins ==
    IF ByReviewer
      THEN UNION { { EntryLogin(df_all_prs[i], j) : j \in LoginEntries(df_all_prs[i]) } :
                   i \in EventRows }
      ELSE { df_all_prs[i].user_login : i \in EventRows }

\* The table's value for a login that is one of its keys, the login otherwise
group_key(login) ==
    IF login \in DOMAIN user_aliases_literal
      THEN user_aliases_literal[login]
      ELSE login

\* C16: by contributor and by reviewer, the groups of the series are the
\* table's values of the logins that are keys of the table and the other
\* logins unchanged; a request leaves the table as the module wrote it.
C16_GroupKeyIsAliasOrLogin ==
    /\ user_aliases = user_aliases_literal
    /\ (Returned /\ ByUserOrReviewer) =>
          { loc.df_cumulative[k][KeyCol] : k \in DOMAIN loc.df_cumulative }
              = { group_key(l) : l \in EventLogins }

\* C16's case: a request returned series for a login of the table and for a
\* login that is not in it
C16_Witness ==
    /\ Returned
    /\ ByUserOrReviewer
    /\ \E a \in EventLogins : a \in DOMAIN user_aliases_literal /\ group_key(a) # a
    /\ \E b \in EventLogins : b \notin DOMAIN user_aliases_literal
    /\ Cardinality({ loc.df_cumulative[k][KeyCol] : k \in DOMAIN loc.df_cumulative }) = 2

----------------------------------------------------------------------------
(* C17: the activate script after set_root_dir_env_var *)

\* A line without the newline at its end
stripped(line) ==
    IF line # <<>> /\ line[Len(line)] = NL THEN SubSeq(line, 1, Len(line) - 1)
    ELSE line

\* The lines of a content that do not export SI_ROOT_DIR, in order
other_lines(content) ==
    LET lines == readlines(content)
    IN  SelectSeq([i \in DOMAIN lines |-> stripped(lines[i])],
                  LAMBDA l : ~contains(l, ExportText))

\* C17: when set_root_dir_env_var has returned, the activate script has
\* exactly one line that exports SI_ROOT_DIR, that line sets it to the
\* working directory, and the other lines are those the script had when the
\* call began; the second run leaves the script as the first run left it.
C17_OneExportLineOtherLinesKept ==
    (pc = "idle" /\ runs >= 1) =>
        LET lines == readlines(activate_script)
            exporting == { i \in DOMAIN lines : contains(lines[i], ExportText) }
        IN  /\ Cardinality(exporting) = 1
            /\ \A i \in exporting : stripped(lines[i]) = export_line
            /\ other_lines(activate_script) = other_lines(prior)
            /\ runs >= 2 => activate_script = prior

----------------------------------------------------------------------------
(* C18: the last frame *)

\* C18: when there are frames, in the last of them the marker of every
\* group is at the group's final point, of day max_day(g) and of value
\* final_cumulative(g), whether the largest max_day is odd or even.
C18_LastFrameAtFinalPoints ==
    (Returned /\ fig.frames # <<>>) =>
        LET cum == Cumulative
            last == Len(fig.frames)
        IN  \A g \in DOMAIN cum :
                /\ Markers(last, g) # {}
                /\ \A t \in Markers(last, g) :
                      /\ fig.frames[last].data[t].x = <<Len(cum[g])>>
                      /\ fig.frames[last].data[t].y = <<cum[g][Len(cum[g])]>>

====
